---- MODULE Spec2Model ----
(***************************************************************************)
(* Custom stream I/O of rust-ffmpeg: the StreamIo bridge                   *)
(* (format/context/stream_io.rs), the Destructor teardown policy           *)
(* (format/context/destructor.rs) and the open glue (format/mod.rs).       *)
(*                                                                         *)
(* One behaviour is one run of a host program: it builds a bridge or opens *)
(* a context, the native engine calls the bridge's callbacks, and what was *)
(* built is dropped.  Every handler is one action; the native calls a      *)
(* handler issues are appended to `log` in program order.                  *)
(***************************************************************************)
EXTENDS Integers, Sequences, FiniteSets, TLC

(* ------------------------------ bounds --------------------------------- *)
\* Callbacks the native engine issues in one run.
MaxCalls == 2
\* Longest initial content of a host stream.
MaxLen == 2
\* Largest byte count one read callback asks for.
MaxReq == 2
\* Longest chunk one write callback hands over.
MaxChunk == 2
\* Width in bits of the model's 64-bit integers (u64 = 0 .. 2^W - 1).
W == 4

(* ------------------------- program constants --------------------------- *)
BUFFER_SIZE == 16384
ENOMEM == 12
EINTR == 4
EAGAIN == 11
EIO == 5
ENOSYS == 38
EINVAL == 22
AVERROR_EOF == -541478725
AVSEEK_SIZE == 65536

AVERROR(e) == -e

(* --------------------------- integer widths ---------------------------- *)
U64 == 2 ^ W
\* `x as u64` of an i64: reinterpretation modulo 2^64.
AsU64(i) == i % U64
\* `x as i64` of a u64: the upper half reads as negative.
AsI64(u) == IF u >= U64 \div 2 THEN u - U64 ELSE u
I64Max == (U64 \div 2) - 1

Min(a, b) == IF a < b THEN a ELSE b
Max(a, b) == IF a > b THEN a ELSE b

RECURSIVE Count(_, _)
Count(s, e) == IF s = <<>> THEN 0
               ELSE (IF Head(s) = e THEN 1 ELSE 0) + Count(Tail(s), e)

\* Position of the first e in s, 0 when absent.
RECURSIVE IndexOf(_, _)
IndexOf(s, e) == IF s = <<>> THEN 0
                 ELSE IF Head(s) = e THEN 1
                 ELSE LET i == IndexOf(Tail(s), e) IN IF i = 0 THEN 0 ELSE i + 1

Zeros(n) == [i \in 1..n |-> 0]

(* ---------------------------- host streams ----------------------------- *)
(* The stream type T is generic; three std-like kinds stand for it:        *)
(*   "vec"   Cursor<Vec<u8>>: growable, transfers as much as asked;        *)
(*   "slice" Cursor<&mut [u8]>: fixed size, a write stops at the end;      *)
(*   "file"  File / socket like: may transfer less than asked and may fail *)
(*           with any io::ErrorKind.                                       *)
StreamKinds == {"vec", "slice", "file"}
ErrorKinds == {"UnexpectedEof", "Interrupted", "WouldBlock", "TimedOut",
               "InvalidInput", "Other"}
\* The chunk of n bytes handed to the i-th callback: its bytes carry i, so
\* that the stream's content tells which call wrote each byte.
Chunk(i, n) == [j \in 1..n |-> i]

NoStream == [st |-> "none", kind |-> "vec", data |-> <<>>, pos |-> 0,
             init |-> <<>>, drops |-> 0]
NewStream(kind, n) == [st |-> "owned", kind |-> kind, data |-> Zeros(n),
                       pos |-> 0, init |-> Zeros(n), drops |-> 0]

Remaining(s) == Max(Len(s.data) - s.pos, 0)

IoOk(s, n) == [res |-> "Ok", n |-> n, kind |-> "none", s |-> s]
IoErr(s, k) == [res |-> "Err", n |-> 0, kind |-> k, s |-> s]
IoAbort(s) == [res |-> "Abort", n |-> 0, kind |-> "none", s |-> s]
Failures(s) == IF s.kind = "file" THEN {IoErr(s, k) : k \in ErrorKinds} ELSE {}
\* A failing seek: the seek callback discards the error (Err(_)), so one
\* kind stands for all.
SeekFailures(s) == IF s.kind = "file" THEN {IoErr(s, "Other")} ELSE {}

\* Read::read(buf) with buf.len() = m: the possible results.
StreamRead(s, m) ==
  LET full == Min(m, Remaining(s))
      counts == IF s.kind = "file" /\ full > 0 THEN 1..full ELSE {full}
  IN {IoOk([s EXCEPT !.pos = s.pos + n], n) : n \in counts} \cup Failures(s)

\* data with chunk c laid over it from position p (gap zero-filled).
Overlay(data, p, c) ==
  LET n == Max(Len(data), p + Len(c))
  IN [i \in 1..n |-> IF i > p /\ i <= p + Len(c) THEN c[i - p]
                     ELSE IF i <= Len(data) THEN data[i] ELSE 0]

\* Write::write(buf) with buf = c: the possible results.
StreamWrite(s, c) ==
  LET k == Len(c)
      p == IF s.kind = "slice" THEN Min(s.pos, Len(s.data)) ELSE s.pos
      room == IF s.kind = "slice" THEN Min(k, Len(s.data) - p) ELSE k
      counts == IF s.kind = "file" /\ k > 0 THEN 1..k ELSE {room}
      put(n) == [s EXCEPT !.data = Overlay(s.data, p, SubSeq(c, 1, n)),
                          !.pos = s.pos + n]
  IN IF s.kind # "slice" /\ s.pos + k > I64Max
     THEN (IF s.kind = "vec" THEN {IoAbort(s)} ELSE {IoErr(s, "Other")})
     ELSE {IoOk(put(n), n) : n \in counts} \cup Failures(s)

\* Seek::seek(SeekFrom::Start(n)), n a u64.
StreamSeekStart(s, n) ==
  IF s.kind = "file"
  THEN (IF n > I64Max THEN {IoErr(s, "Other")}
        ELSE {IoOk([s EXCEPT !.pos = n], n)} \cup SeekFailures(s))
  ELSE {IoOk([s EXCEPT !.pos = n], n)}

\* Seek::seek(SeekFrom::Current(d)) (base = position) and SeekFrom::End(d)
\* (base = length), d an i64.
StreamSeekFrom(s, base, d) ==
  LET n == base + d
      top == IF s.kind = "file" THEN I64Max ELSE U64 - 1
  IN IF n < 0 \/ n > top THEN {IoErr(s, "Other")}
     ELSE {IoOk([s EXCEPT !.pos = n], n)} \cup SeekFailures(s)

StreamSeekCurrent(s, d) == StreamSeekFrom(s, s.pos, d)
StreamSeekEnd(s, d) == StreamSeekFrom(s, Len(s.data), d)
\* Seek::stream_position() is seek(SeekFrom::Current(0)).
StreamPosition(s) == StreamSeekCurrent(s, 0)

(* ------------------------------- state --------------------------------- *)
VARIABLES
  pc,      \* where the host program is: "start", "bridge" (it holds a
           \* StreamIo), "ctx" (it holds an opened context), "done", "again"
           \* (a teardown was run a second time), "crashed"
  log,     \* the native calls and host releases so far, in program order
  buffer,  \* the av_malloc'ed I/O buffer
  avio,    \* the native AVIOContext struct
  stream,  \* the host stream (T), boxed behind avio.opaque
  sio,     \* the StreamIo value
  fmt,     \* the native AVFormatContext
  pb,      \* an I/O handle the native engine opened itself (avio_open)
  dtor,    \* the Destructor inside the returned context
  result,  \* what the last entry point returned
  calls,   \* callbacks issued so far
  last,    \* the last callback: its arguments, the stream before it, its return
  hist     \* the chunks of the write callbacks that returned a count, joined,
           \* and whether no other callback ran

vars == <<pc, log, buffer, avio, stream, sio, fmt, pb, dtor, result, calls,
          last, hist>>

NoBuffer == [st |-> "none", frees |-> 0]
NoAvio == [st |-> "none", frees |-> 0, buffer |-> FALSE, buffer_size |-> 0,
           write_flag |-> 0, opaque |-> FALSE,
           read |-> FALSE, write |-> FALSE, seek |-> FALSE]
NoSio == [st |-> "none", ptr |-> FALSE, ctor |-> "none"]
NoFmt == [st |-> "none", frees |-> 0, pb |-> "null", custom |-> FALSE]
NoPb == [st |-> "none", closes |-> 0]
NoDtor == [st |-> "none", mode |-> "none", mark |-> 0]
NoResult == [fn |-> "none", ok |-> TRUE, err |-> 0]
NoLast == [op |-> "none", req |-> 0, whence |-> 0, avail |-> 0, pos0 |-> 0,
           res |-> "none", kind |-> "none", n |-> 0, ret |-> 0]
NoHist == [written |-> <<>>, onlyWrites |-> TRUE]

\* The part of the state the handlers transform.
World == [pc |-> pc, log |-> log, buffer |-> buffer, avio |-> avio,
          stream |-> stream, sio |-> sio, fmt |-> fmt, pb |-> pb,
          dtor |-> dtor, result |-> result]

SetWorld(w) ==
  /\ pc' = w.pc
  /\ log' = w.log
  /\ buffer' = w.buffer
  /\ avio' = w.avio
  /\ stream' = w.stream
  /\ sio' = w.sio
  /\ fmt' = w.fmt
  /\ pb' = w.pb
  /\ dtor' = w.dtor
  /\ result' = w.result

Logged(w, e) == [w EXCEPT !.log = Append(w.log, e)]
\* An entry point returns Ok (ok) or Err(err), leaving the program at p.
Returns(w, f, ok, err, p) ==
  [w EXCEPT !.result = [fn |-> f, ok |-> ok, err |-> err], !.pc = p]

(* --------------------------- native primitives ------------------------- *)
\* ffi::av_malloc(BUFFER_SIZE): the buffer, or null.
av_malloc(w, ok) ==
  [Logged(w, "av_malloc") EXCEPT
     !.buffer = IF ok THEN [st |-> "alloc", frees |-> 0] ELSE w.buffer]

\* ffi::avio_alloc_context(buffer, size, write_flag, opaque, r, w, s): the
\* context struct, or null (the buffer stays the caller's).
avio_alloc_context(w, size, write_flag, r, wr, s, ok) ==
  [Logged(w, "avio_alloc_context") EXCEPT
     !.avio = IF ok
              THEN [st |-> "alloc", frees |-> 0, buffer |-> TRUE,
                    buffer_size |-> size, write_flag |-> write_flag,
                    opaque |-> TRUE, read |-> r, write |-> wr, seek |-> s]
              ELSE w.avio]

\* ffi::av_freep(&(*ptr).buffer): frees what the field points to, nulls it.
av_freep_buffer(w) ==
  IF w.avio.buffer
  THEN [Logged(w, "av_freep(buffer)") EXCEPT
          !.buffer = [st |-> "freed", frees |-> w.buffer.frees + 1],
          !.avio.buffer = FALSE]
  ELSE Logged(w, "av_freep(buffer)")

\* ffi::avio_context_free(&mut ptr): frees the struct, nulls the pointer.
avio_context_free(w) ==
  IF w.sio.ptr
  THEN [Logged(w, "avio_context_free") EXCEPT
          !.avio.st = "freed", !.avio.frees = w.avio.frees + 1,
          !.sio.ptr = FALSE]
  ELSE Logged(w, "avio_context_free")

\* The host stream's destructor runs (ev names the place that ran it).
DropStream(w, ev) ==
  [Logged(w, ev) EXCEPT !.stream.st = "dropped",
                        !.stream.drops = w.stream.drops + 1]

\* drop_box::<T>(opaque): Box::from_raw, then drop.
drop_box(w) == DropStream(w, "drop_opaque")

(* ------------------------------ StreamIo ------------------------------- *)
Ctors == {"from_read", "from_read_seek", "from_read_write_seek",
          "from_read_write", "from_write", "from_write_seek"}

MutDropStreamIoStreamFirst(w) ==
  IF w.sio.ptr
  THEN [avio_context_free(av_freep_buffer(drop_box(w)))
          EXCEPT !.sio.st = "dropped"]
  ELSE [w EXCEPT !.sio.st = "dropped"]

MutDropStreamIoNoNullCheck(w) ==
  [drop_box(avio_context_free(av_freep_buffer(w)))
     EXCEPT !.sio.st = "dropped"]

\* impl Drop for StreamIo.
DropStreamIo(w) ==
  IF w.sio.ptr
  THEN [drop_box(avio_context_free(av_freep_buffer(w)))
          EXCEPT !.sio.st = "dropped"]
  ELSE [w EXCEPT !.sio.st = "dropped"]

MutNewImplFlagFromRead(w, ctor, r, wr, s, bufOk, ctxOk) ==
  LET w1 == av_malloc(w, bufOk)
      w2 == Logged(w1, "Box::new")
      w3 == avio_alloc_context(w2, BUFFER_SIZE, IF r THEN 1 ELSE 0,
                               r, wr, s, ctxOk)
  IN IF w1.buffer.st # "alloc"
     THEN Returns(DropStream(w1, "drop(stream)"), ctor, FALSE, AVERROR(ENOMEM), "done")
     ELSE IF w3.avio.st # "alloc"
     THEN Returns(DropStream(w3, "drop(Box)"), ctor, FALSE, AVERROR(ENOMEM), "done")
     ELSE Returns([w3 EXCEPT !.stream.st = "boxed",
                             !.sio = [st |-> "live", ptr |-> TRUE,
                                      ctor |-> ctor]],
                  ctor, TRUE, 0, "bridge")

\* StreamIo::new_impl(stream, r, w, s).
new_impl(w, ctor, r, wr, s, bufOk, ctxOk) ==
  LET w1 == av_malloc(w, bufOk)
      w2 == Logged(w1, "Box::new")
      w3 == avio_alloc_context(w2, BUFFER_SIZE, IF wr THEN 1 ELSE 0,
                               r, wr, s, ctxOk)
  IN IF w1.buffer.st # "alloc"
     THEN Returns(DropStream(w1, "drop(stream)"), ctor, FALSE, AVERROR(ENOMEM), "done")
     ELSE IF w3.avio.st # "alloc"
     THEN Returns(DropStream(w3, "drop(Box)"), ctor, FALSE, AVERROR(ENOMEM), "done")
     ELSE Returns([w3 EXCEPT !.stream.st = "boxed",
                             !.sio = [st |-> "live", ptr |-> TRUE,
                                      ctor |-> ctor]],
                  ctor, TRUE, 0, "bridge")

\* The six constructors: which callbacks each hands to new_impl.
CtorRead(c) == c \in {"from_read", "from_read_seek", "from_read_write_seek",
                      "from_read_write"}
CtorWrite(c) == c \in {"from_read_write_seek", "from_read_write", "from_write",
                       "from_write_seek"}
CtorSeek(c) == c \in {"from_read_seek", "from_read_write_seek",
                      "from_write_seek"}

(* ------------------------ native format contexts ----------------------- *)
\* A native status code: 0, or a negative error.
NativeCodes == {0, AVERROR(EIO)}

\* ffi::avformat_alloc_context(): a fresh context, or null.
avformat_alloc_context(w, ok) ==
  [Logged(w, "avformat_alloc_context") EXCEPT
     !.fmt = IF ok THEN [st |-> "alloc", frees |-> 0, pb |-> "null",
                         custom |-> FALSE]
             ELSE w.fmt]

\* ffi::avformat_open_input(&mut ps, ..) returning rc.  A null ps is allocated
\* by the call; a pb already set marks the context custom-I/O, otherwise the
\* call opens its own I/O handle.  On failure the context is freed and ps is
\* nulled; a custom pb is never closed.
avformat_open_input(w, rc) ==
  LET w1 == Logged(w, "avformat_open_input")
      had == w.fmt.st = "alloc"
      custom == had /\ w.fmt.pb # "null"
  IN IF rc = 0
     THEN [w1 EXCEPT
             !.fmt = [st |-> "open", frees |-> w.fmt.frees,
                      pb |-> IF custom THEN w.fmt.pb ELSE "native",
                      custom |-> custom],
             !.pb = IF custom THEN w.pb ELSE [st |-> "open", closes |-> 0]]
     ELSE IF had
     THEN [w1 EXCEPT !.fmt.st = "freed", !.fmt.frees = w.fmt.frees + 1]
     ELSE w1

\* ffi::avformat_find_stream_info(ps, null): reads the streams; frees nothing.
avformat_find_stream_info(w) == Logged(w, "avformat_find_stream_info")

\* ffi::avformat_close_input(&mut ps): closes the demuxer, frees the context,
\* nulls ps, and closes the context's I/O handle unless it is custom I/O.
avformat_close_input(w) ==
  LET w1 == Logged(w, "avformat_close_input")
  IN IF w.fmt.st \in {"alloc", "open"}
     THEN [w1 EXCEPT
             !.fmt.st = "freed", !.fmt.frees = w.fmt.frees + 1,
             !.pb = IF ~w.fmt.custom /\ w.fmt.pb = "native"
                    THEN [st |-> "closed", closes |-> w.pb.closes + 1]
                    ELSE w.pb]
     ELSE w1

\* ffi::avformat_free_context(ps): frees the context struct; pb is untouched.
avformat_free_context(w) ==
  LET w1 == Logged(w, "avformat_free_context")
  IN IF w.fmt.st = "none" THEN w1
     ELSE [w1 EXCEPT !.fmt.st = "freed", !.fmt.frees = w.fmt.frees + 1]

\* ffi::avformat_alloc_output_context2(&mut ps, ..) returning rc.
avformat_alloc_output_context2(w, rc) ==
  [Logged(w, "avformat_alloc_output_context2") EXCEPT
     !.fmt = IF rc = 0 THEN [st |-> "alloc", frees |-> 0, pb |-> "null",
                             custom |-> FALSE]
             ELSE w.fmt]

\* ffi::avio_open(&mut (*ps).pb, path, AVIO_FLAG_WRITE) returning rc.
avio_open(w, rc) ==
  IF rc = 0
  THEN [Logged(w, "avio_open") EXCEPT !.fmt.pb = "native",
                                      !.pb = [st |-> "open", closes |-> 0]]
  ELSE Logged(w, "avio_open")

\* ffi::avio_open2(&mut (*ps).pb, path, AVIO_FLAG_WRITE, null, &mut opts)
\* returning rc.
avio_open2(w, rc) ==
  IF rc = 0
  THEN [Logged(w, "avio_open2") EXCEPT !.fmt.pb = "native",
                                       !.pb = [st |-> "open", closes |-> 0]]
  ELSE Logged(w, "avio_open2")

\* ffi::avio_close((*ptr).pb): closes the handle in the context's I/O slot and
\* frees its AVIOContext with its buffer; a null handle is left alone.
avio_close(w) ==
  LET w1 == Logged(w, "avio_close")
  IN CASE w.fmt.pb = "native" ->
            [w1 EXCEPT !.pb = [st |-> "closed", closes |-> w.pb.closes + 1]]
       [] w.fmt.pb = "bridge" ->
            [w1 EXCEPT !.buffer = [st |-> "freed",
                                   frees |-> w.buffer.frees + 1],
                       !.avio.st = "freed",
                       !.avio.frees = w.avio.frees + 1]
       [] OTHER -> w1

(* ----------------------------- Destructor ------------------------------ *)
Bridged(m) == m \in {"InputCustomIo", "OutputCustomIo"}

\* Destructor::new(ptr, mode); mark is where in the log its life starts.
DestructorNew(w, mode) ==
  [w EXCEPT !.dtor = [st |-> "live", mode |-> mode, mark |-> Len(w.log)]]

MutDropBodyBridgedCloses(w) ==
  CASE w.dtor.mode = "InputCustomIo" -> avformat_free_context(avio_close(w))
    [] w.dtor.mode = "OutputCustomIo" -> avformat_free_context(avio_close(w))
    [] w.dtor.mode = "Input" -> avformat_close_input(w)
    [] w.dtor.mode = "Output" -> avformat_free_context(avio_close(w))

MutDropBodyInputFreesOnly(w) ==
  CASE w.dtor.mode = "InputCustomIo" -> avformat_free_context(w)
    [] w.dtor.mode = "OutputCustomIo" -> avformat_free_context(w)
    [] w.dtor.mode = "Input" -> avformat_close_input(w)
    [] w.dtor.mode = "Output" -> avformat_free_context(avio_close(w))

MutDropBodyOutputFreesFirst(w) ==
  CASE w.dtor.mode = "InputCustomIo" -> avformat_close_input(w)
    [] w.dtor.mode = "OutputCustomIo" -> avformat_free_context(w)
    [] w.dtor.mode = "Input" -> avformat_close_input(w)
    [] w.dtor.mode = "Output" -> avio_close(avformat_free_context(w))

\* The body of impl Drop for Destructor: the native calls per mode.
DestructorDropBody(w) ==
  CASE w.dtor.mode = "InputCustomIo" -> avformat_close_input(w)
    [] w.dtor.mode = "OutputCustomIo" -> avformat_free_context(w)
    [] w.dtor.mode = "Input" -> avformat_close_input(w)
    [] w.dtor.mode = "Output" -> avformat_free_context(avio_close(w))

MutDropDestructorFieldFirst(w) ==
  LET w1 == IF Bridged(w.dtor.mode) THEN DropStreamIo(w) ELSE w
  IN [DestructorDropBody(w1) EXCEPT !.dtor.st = "dropped"]

\* A Destructor is dropped: Drop::drop runs, then its fields are dropped, and
\* with them the StreamIo a bridged mode holds.
DropDestructor(w) ==
  LET w1 == DestructorDropBody(w)
      w2 == IF Bridged(w.dtor.mode) THEN DropStreamIo(w1) ELSE w1
  IN [w2 EXCEPT !.dtor.st = "dropped"]

(* ------------------------------ open glue ------------------------------ *)
\* context::Input::wrap(ps), context::Output::wrap(ps) and the two
\* wrap_with_custom_io(ps, custom_io): the context owns a Destructor tagged
\* with the way it was opened; the bridged ones take the StreamIo with them.
InputWrap(w) == DestructorNew(w, "Input")
OutputWrap(w) == DestructorNew(w, "Output")
InputWrapWithCustomIo(w) == DestructorNew(w, "InputCustomIo")
OutputWrapWithCustomIo(w) == DestructorNew(w, "OutputCustomIo")

\* What a write through a null pointer can do: the process dies on the
\* fault, or the store is dropped and the program runs on.
NullDerefOutcomes == {"abort", "elided"}

\* The process dies (ev: the signal or abort that ends it); nothing is dropped.
Crash(w, ev) == [Logged(w, ev) EXCEPT !.pc = "crashed"]

\* The local custom_io goes out of scope on an error return.
ErrReturn(w, f, e) == Returns(DropStreamIo(w), f, FALSE, e, "done")

\* input_from_stream(custom_io, filename, options).
input_from_stream(w, allocOk, ub, rcOpen, rcProbe) ==
  LET w1 == avformat_alloc_context(w, allocOk)
      \* (*ps).pb = custom_io.as_mut_ptr()
      w2 == IF allocOk THEN [w1 EXCEPT !.fmt.pb = "bridge"] ELSE w1
      w3 == avformat_open_input(w2, rcOpen)
      w4 == avformat_find_stream_info(w3)
  IN IF ~allocOk /\ ub = "abort" THEN Crash(w1, "SIGSEGV")
     ELSE IF rcOpen # 0 THEN ErrReturn(w3, "input_from_stream", rcOpen)
     ELSE IF rcProbe >= 0
     THEN Returns(InputWrapWithCustomIo(w4), "input_from_stream", TRUE, 0, "ctx")
     ELSE ErrReturn(avformat_close_input(w4), "input_from_stream", rcProbe)

\* output_to_stream(custom_io, filename, format).
output_to_stream(w, rc) ==
  LET w1 == avformat_alloc_output_context2(w, rc)
  IN IF rc = 0
     THEN Returns(OutputWrapWithCustomIo([w1 EXCEPT !.fmt.pb = "bridge"]),
                  "output_to_stream", TRUE, 0, "ctx")
     ELSE ErrReturn(w1, "output_to_stream", rc)

\* input(path).
input(w, rcOpen, rcProbe) ==
  LET w3 == avformat_open_input(w, rcOpen)
      w4 == avformat_find_stream_info(w3)
  IN IF rcOpen # 0 THEN Returns(w3, "input", FALSE, rcOpen, "done")
     ELSE IF rcProbe >= 0 THEN Returns(InputWrap(w4), "input", TRUE, 0, "ctx")
     ELSE Returns(avformat_close_input(w4), "input", FALSE, rcProbe, "done")

\* output(path).
output(w, rcAlloc, rcOpen) ==
  LET w1 == avformat_alloc_output_context2(w, rcAlloc)
      w2 == avio_open(w1, rcOpen)
  IN IF rcAlloc # 0 THEN Returns(w1, "output", FALSE, rcAlloc, "done")
     ELSE IF rcOpen = 0 THEN Returns(OutputWrap(w2), "output", TRUE, 0, "ctx")
     ELSE Returns(w2, "output", FALSE, rcOpen, "done")

\* The two directions of a Format.
Formats == {"Input", "Output"}

\* open(path, format): no call follows a failed probe or a failed avio_open.
open(w, format, rc1, rc2) ==
  IF format = "Input"
  THEN LET w3 == avformat_open_input(w, rc1)
           w4 == avformat_find_stream_info(w3)
       IN IF rc1 # 0 THEN Returns(w3, "open", FALSE, rc1, "done")
          ELSE IF rc2 >= 0 THEN Returns(InputWrap(w4), "open", TRUE, 0, "ctx")
          ELSE Returns(w4, "open", FALSE, rc2, "done")
  ELSE LET w1 == avformat_alloc_output_context2(w, rc1)
           w2 == avio_open(w1, rc2)
       IN IF rc1 # 0 THEN Returns(w1, "open", FALSE, rc1, "done")
          ELSE IF rc2 = 0 THEN Returns(OutputWrap(w2), "open", TRUE, 0, "ctx")
          ELSE Returns(w2, "open", FALSE, rc2, "done")

\* open_with(path, format, options).
open_with(w, format, rc1, rc2) ==
  IF format = "Input"
  THEN LET w3 == avformat_open_input(w, rc1)
           w4 == avformat_find_stream_info(w3)
       IN IF rc1 # 0 THEN Returns(w3, "open_with", FALSE, rc1, "done")
          ELSE IF rc2 >= 0
          THEN Returns(InputWrap(w4), "open_with", TRUE, 0, "ctx")
          ELSE Returns(w4, "open_with", FALSE, rc2, "done")
  ELSE LET w1 == avformat_alloc_output_context2(w, rc1)
           w2 == avio_open(w1, rc2)
       IN IF rc1 # 0 THEN Returns(w1, "open_with", FALSE, rc1, "done")
          ELSE IF rc2 = 0
          THEN Returns(OutputWrap(w2), "open_with", TRUE, 0, "ctx")
          ELSE Returns(w2, "open_with", FALSE, rc2, "done")

\* input_with_dictionary(path, options).
input_with_dictionary(w, rcOpen, rcProbe) ==
  LET w3 == avformat_open_input(w, rcOpen)
      w4 == avformat_find_stream_info(w3)
  IN IF rcOpen # 0
     THEN Returns(w3, "input_with_dictionary", FALSE, rcOpen, "done")
     ELSE IF rcProbe >= 0
     THEN Returns(InputWrap(w4), "input_with_dictionary", TRUE, 0, "ctx")
     ELSE Returns(avformat_close_input(w4), "input_with_dictionary", FALSE,
                  rcProbe, "done")

\* input_with_interrupt(path, closure): the interrupt callback is stored
\* through the unchecked result of avformat_alloc_context.
input_with_interrupt(w, allocOk, ub, rcOpen, rcProbe) ==
  LET w1 == avformat_alloc_context(w, allocOk)
      w3 == avformat_open_input(w1, rcOpen)
      w4 == avformat_find_stream_info(w3)
  IN IF ~allocOk /\ ub = "abort" THEN Crash(w1, "SIGSEGV")
     ELSE IF rcOpen # 0
     THEN Returns(w3, "input_with_interrupt", FALSE, rcOpen, "done")
     ELSE IF rcProbe >= 0
     THEN Returns(InputWrap(w4), "input_with_interrupt", TRUE, 0, "ctx")
     ELSE Returns(avformat_close_input(w4), "input_with_interrupt", FALSE,
                  rcProbe, "done")

\* output_with(path, options).
output_with(w, rcAlloc, rcOpen) ==
  LET w1 == avformat_alloc_output_context2(w, rcAlloc)
      w2 == avio_open2(w1, rcOpen)
  IN IF rcAlloc # 0 THEN Returns(w1, "output_with", FALSE, rcAlloc, "done")
     ELSE IF rcOpen = 0
     THEN Returns(OutputWrap(w2), "output_with", TRUE, 0, "ctx")
     ELSE Returns(w2, "output_with", FALSE, rcOpen, "done")

\* output_as(path, format).
output_as(w, rcAlloc, rcOpen) ==
  LET w1 == avformat_alloc_output_context2(w, rcAlloc)
      w2 == avio_open(w1, rcOpen)
  IN IF rcAlloc # 0 THEN Returns(w1, "output_as", FALSE, rcAlloc, "done")
     ELSE IF rcOpen = 0 THEN Returns(OutputWrap(w2), "output_as", TRUE, 0, "ctx")
     ELSE Returns(w2, "output_as", FALSE, rcOpen, "done")

\* output_as_with(path, format, options).
output_as_with(w, rcAlloc, rcOpen) ==
  LET w1 == avformat_alloc_output_context2(w, rcAlloc)
      w2 == avio_open2(w1, rcOpen)
  IN IF rcAlloc # 0 THEN Returns(w1, "output_as_with", FALSE, rcAlloc, "done")
     ELSE IF rcOpen = 0
     THEN Returns(OutputWrap(w2), "output_as_with", TRUE, 0, "ctx")
     ELSE Returns(w2, "output_as_with", FALSE, rcOpen, "done")

(* ------------------------------ callbacks ------------------------------ *)
MutMapIoErrorTimedOutIsEio(kind) ==
  CASE kind = "UnexpectedEof" -> AVERROR_EOF
    [] kind = "Interrupted" -> AVERROR(EINTR)
    [] kind = "WouldBlock" -> AVERROR(EAGAIN)
    [] OTHER -> AVERROR(EIO)

\* map_io_error(e).
map_io_error(kind) ==
  CASE kind = "UnexpectedEof" -> AVERROR_EOF
    [] kind = "Interrupted" -> AVERROR(EINTR)
    [] kind \in {"WouldBlock", "TimedOut"} -> AVERROR(EAGAIN)
    [] OTHER -> AVERROR(EIO)

\* A callback's outcome: what it returns, and what the stream did.
Outcome(ret, o) == [ret |-> ret, o |-> o]

MutReadZeroIsLength(s, m) ==
  {Outcome(IF o.res = "Ok" THEN o.n ELSE map_io_error(o.kind), o)
     : o \in StreamRead(s, m)}

\* read::<T>(opaque, buf, buf_size) with buf_size = m.
read(s, m) ==
  {Outcome(IF o.res = "Ok" THEN (IF o.n = 0 THEN AVERROR_EOF ELSE o.n)
           ELSE map_io_error(o.kind), o)
     : o \in StreamRead(s, m)}

MutWriteKeepsPosition(s, c) ==
  {Outcome(IF o.res = "Ok" THEN o.n ELSE map_io_error(o.kind),
           [o EXCEPT !.s.pos = s.pos])
     : o \in StreamWrite(s, c)}

\* write::<T>(opaque, buf, buf_size) with the bytes c.
write(s, c) ==
  {Outcome(IF o.res = "Ok" THEN o.n ELSE map_io_error(o.kind), o)
     : o \in StreamWrite(s, c)}

MutSeekSizeNoRestore(s) ==
  UNION {
    IF p.res # "Ok" THEN {Outcome(AVERROR(ENOSYS), p)}
    ELSE {IF e.res # "Ok" THEN Outcome(AVERROR(ENOSYS), e)
          ELSE Outcome(AsI64(e.n), e)
            : e \in StreamSeekEnd(p.s, 0)}
    : p \in StreamPosition(s)}

MutSeekSizeFailIsEio(s) ==
  UNION {
    IF p.res # "Ok" THEN {Outcome(AVERROR(EIO), p)}
    ELSE UNION {
      IF e.res # "Ok" THEN {Outcome(AVERROR(EIO), e)}
      ELSE IF p.n = e.n THEN {Outcome(AsI64(e.n), e)}
      ELSE {IF b.res # "Ok" THEN Outcome(AVERROR(EIO), b)
            ELSE Outcome(AsI64(e.n), IoOk(b.s, e.n))
              : b \in StreamSeekStart(e.s, p.n)}
      : e \in StreamSeekEnd(p.s, 0)}
    : p \in StreamPosition(s)}

\* The size query of seek: stream_position, seek(End(0)) and, when the
\* position was not the end, seek(Start(cur)); any failure is ENOSYS.
SeekSize(s) ==
  UNION {
    IF p.res # "Ok" THEN {Outcome(AVERROR(ENOSYS), p)}
    ELSE UNION {
      IF e.res # "Ok" THEN {Outcome(AVERROR(ENOSYS), e)}
      ELSE IF p.n = e.n THEN {Outcome(AsI64(e.n), e)}
      ELSE {IF b.res # "Ok" THEN Outcome(AVERROR(ENOSYS), b)
            ELSE Outcome(AsI64(e.n), IoOk(b.s, e.n))
              : b \in StreamSeekStart(e.s, p.n)}
      : e \in StreamSeekEnd(p.s, 0)}
    : p \in StreamPosition(s)}

MutSeekInvalidIsCurrent(s, offset, whence) ==
  IF whence = AVSEEK_SIZE THEN SeekSize(s)
  ELSE {Outcome(IF o.res = "Ok" THEN AsI64(o.n) ELSE AVERROR(EIO), o)
          : o \in (CASE whence = 0 -> StreamSeekStart(s, AsU64(offset))
                     [] whence = 2 -> StreamSeekEnd(s, offset)
                     [] OTHER -> StreamSeekCurrent(s, offset))}

\* seek::<T>(opaque, offset, whence).
seek(s, offset, whence) ==
  IF whence = AVSEEK_SIZE THEN SeekSize(s)
  ELSE IF whence \notin {0, 1, 2}
  THEN {Outcome(AVERROR(EINVAL), [res |-> "None", n |-> 0, kind |-> "none",
                                  s |-> s])}
  ELSE {Outcome(IF o.res = "Ok" THEN AsI64(o.n) ELSE AVERROR(EIO), o)
          : o \in (CASE whence = 0 -> StreamSeekStart(s, AsU64(offset))
                     [] whence = 1 -> StreamSeekCurrent(s, offset)
                     [] whence = 2 -> StreamSeekEnd(s, offset))}

Whences == {0, 1, 2, 3, AVSEEK_SIZE}
Offsets == {-1, 0, 1}

(* ------------------------------- actions ------------------------------- *)
Init ==
  /\ pc = "start"
  /\ log = <<>>
  /\ buffer = NoBuffer
  /\ avio = NoAvio
  /\ stream = NoStream
  /\ sio = NoSio
  /\ fmt = NoFmt
  /\ pb = NoPb
  /\ dtor = NoDtor
  /\ result = NoResult
  /\ calls = 0
  /\ last = NoLast
  /\ hist = NoHist

\* The host calls one of the six constructors on a stream of its own.
Construct ==
  /\ pc = "start"
  /\ \E ctor \in Ctors, kind \in StreamKinds, n \in 0..MaxLen,
        bufOk \in BOOLEAN, ctxOk \in BOOLEAN :
       SetWorld(new_impl([World EXCEPT !.stream = NewStream(kind, n)], ctor,
                         CtorRead(ctor), CtorWrite(ctor), CtorSeek(ctor),
                         bufOk, ctxOk))
  /\ UNCHANGED <<calls, last, hist>>

\* The host drops a bridge it never opened a context with.
DropBridge ==
  /\ pc = "bridge"
  /\ SetWorld([DropStreamIo(World) EXCEPT !.pc = "done"])
  /\ UNCHANGED <<calls, last, hist>>

InputFromStream ==
  /\ pc = "bridge"
  /\ \E allocOk \in BOOLEAN, ub \in NullDerefOutcomes,
        rcOpen \in NativeCodes, rcProbe \in NativeCodes :
       SetWorld(input_from_stream(World, allocOk, ub, rcOpen, rcProbe))
  /\ UNCHANGED <<calls, last, hist>>

OutputToStream ==
  /\ pc = "bridge"
  /\ \E rc \in NativeCodes : SetWorld(output_to_stream(World, rc))
  /\ UNCHANGED <<calls, last, hist>>

Input ==
  /\ pc = "start"
  /\ \E rcOpen \in NativeCodes, rcProbe \in NativeCodes :
       SetWorld(input(World, rcOpen, rcProbe))
  /\ UNCHANGED <<calls, last, hist>>

Output ==
  /\ pc = "start"
  /\ \E rcAlloc \in NativeCodes, rcOpen \in NativeCodes :
       SetWorld(output(World, rcAlloc, rcOpen))
  /\ UNCHANGED <<calls, last, hist>>

Open ==
  /\ pc = "start"
  /\ \E format \in Formats, rc1 \in NativeCodes, rc2 \in NativeCodes :
       SetWorld(open(World, format, rc1, rc2))
  /\ UNCHANGED <<calls, last, hist>>

OpenWith ==
  /\ pc = "start"
  /\ \E format \in Formats, rc1 \in NativeCodes, rc2 \in NativeCodes :
       SetWorld(open_with(World, format, rc1, rc2))
  /\ UNCHANGED <<calls, last, hist>>

InputWithDictionary ==
  /\ pc = "start"
  /\ \E rcOpen \in NativeCodes, rcProbe \in NativeCodes :
       SetWorld(input_with_dictionary(World, rcOpen, rcProbe))
  /\ UNCHANGED <<calls, last, hist>>

InputWithInterrupt ==
  /\ pc = "start"
  /\ \E allocOk \in BOOLEAN, ub \in NullDerefOutcomes,
        rcOpen \in NativeCodes, rcProbe \in NativeCodes :
       SetWorld(input_with_interrupt(World, allocOk, ub, rcOpen, rcProbe))
  /\ UNCHANGED <<calls, last, hist>>

OutputWith ==
  /\ pc = "start"
  /\ \E rcAlloc \in NativeCodes, rcOpen \in NativeCodes :
       SetWorld(output_with(World, rcAlloc, rcOpen))
  /\ UNCHANGED <<calls, last, hist>>

OutputAs ==
  /\ pc = "start"
  /\ \E rcAlloc \in NativeCodes, rcOpen \in NativeCodes :
       SetWorld(output_as(World, rcAlloc, rcOpen))
  /\ UNCHANGED <<calls, last, hist>>

OutputAsWith ==
  /\ pc = "start"
  /\ \E rcAlloc \in NativeCodes, rcOpen \in NativeCodes :
       SetWorld(output_as_with(World, rcAlloc, rcOpen))
  /\ UNCHANGED <<calls, last, hist>>

\* The host drops the context an open returned.
DropContext ==
  /\ pc = "ctx"
  /\ SetWorld([DropDestructor(World) EXCEPT !.pc = "done"])
  /\ UNCHANGED <<calls, last, hist>>

\* Drop::drop runs once more on a StreamIo that was already torn down (a
\* host that calls ptr::drop_in_place on a value it dropped).
DropAgain ==
  /\ pc = "done"
  /\ sio.st = "dropped"
  /\ SetWorld([DropStreamIo(World) EXCEPT !.pc = "again"])
  /\ UNCHANGED <<calls, last, hist>>

\* The native engine calls the callbacks of the AVIOContext in the I/O slot
\* of an opened context.
CanCall == /\ pc = "ctx"
           /\ avio.st = "alloc"
           /\ calls < MaxCalls

\* The state after a callback whose outcome is x.
Called(op, req, whence, x) ==
  /\ calls' = calls + 1
  /\ stream' = x.o.s
  /\ last' = [op |-> op, req |-> req, whence |-> whence,
              avail |-> Remaining(stream), pos0 |-> stream.pos,
              res |-> x.o.res, kind |-> x.o.kind, n |-> x.o.n, ret |-> x.ret]
  /\ IF x.o.res = "Abort"
     THEN pc' = "crashed" /\ log' = Append(log, "abort")
     ELSE UNCHANGED <<pc, log>>
  /\ UNCHANGED <<buffer, avio, sio, fmt, pb, dtor, result>>

ReadCallback ==
  /\ CanCall
  /\ avio.read
  /\ \E m \in 0..MaxReq : \E x \in read(stream, m) : Called("read", m, 0, x)
  /\ hist' = [hist EXCEPT !.onlyWrites = FALSE]

WriteCallback ==
  /\ CanCall
  /\ avio.write
  /\ \E k \in 0..MaxChunk : \E x \in write(stream, Chunk(calls + 1, k)) :
       /\ Called("write", k, 0, x)
       /\ hist' = IF x.ret >= 0
                  THEN [hist EXCEPT
                          !.written = hist.written \o Chunk(calls + 1, k)]
                  ELSE hist

SeekCallback ==
  /\ CanCall
  /\ avio.seek
  /\ \E d \in Offsets, wh \in Whences : \E x \in seek(stream, d, wh) :
       Called("seek", d, wh, x)
  /\ hist' = [hist EXCEPT !.onlyWrites = FALSE]

Next ==
  \/ Construct
  \/ DropBridge
  \/ InputFromStream
  \/ OutputToStream
  \/ Input
  \/ Output
  \/ Open
  \/ OpenWith
  \/ InputWithDictionary
  \/ InputWithInterrupt
  \/ OutputWith
  \/ OutputAs
  \/ OutputAsWith
  \/ DropContext
  \/ DropAgain
  \/ ReadCallback
  \/ WriteCallback
  \/ SeekCallback

Spec == Init /\ [][Next]_vars

(* ======================= properties of the code ======================== *)
Frees(e) == Count(log, e)
At(e) == IndexOf(log, e)
\* The native calls and releases issued by the teardown of the context.
TeardownCalls == SubSeq(log, dtor.mark + 1, Len(log))
\* The calls among them that act on the native format context.
FmtCalls == {"avformat_alloc_context", "avformat_open_input",
             "avformat_find_stream_info", "avformat_close_input",
             "avformat_free_context", "avformat_alloc_output_context2",
             "avio_open", "avio_close"}
TeardownFmtCalls == SelectSeq(TeardownCalls, LAMBDA e : e \in FmtCalls)

(* C1: a StreamIo built by any of the six constructors releases the native *)
(* buffer, the native I/O context struct and the boxed stream together,    *)
(* each exactly once, in the order buffer, context struct, stream: while   *)
(* it lives none of the three is released, once it is dropped all three    *)
(* are, and no run releases one of them twice.                             *)
C1_ReleasedTogetherOnceInOrder ==
  sio.st # "none" =>
    /\ sio.ctor \in Ctors
    /\ buffer.frees <= 1 /\ avio.frees <= 1 /\ stream.drops <= 1
    /\ sio.st = "live" =>
         /\ buffer.st = "alloc" /\ avio.st = "alloc" /\ stream.st = "boxed"
         /\ Frees("av_freep(buffer)") = 0
         /\ Frees("avio_context_free") = 0
         /\ Frees("drop_opaque") = 0
    /\ sio.st = "dropped" =>
         /\ buffer.st = "freed" /\ buffer.frees = 1
         /\ avio.st = "freed" /\ avio.frees = 1
         /\ stream.st = "dropped" /\ stream.drops = 1
         /\ Frees("av_freep(buffer)") = 1
         /\ Frees("avio_context_free") = 1
         /\ Frees("drop_opaque") = 1
         /\ At("avio_context_free") = At("av_freep(buffer)") + 1
         /\ At("drop_opaque") = At("avio_context_free") + 1

\* A bridge built by from_write_seek and dropped without ever being opened.
C1_Witness ==
  /\ sio.st = "dropped" /\ sio.ctor = "from_write_seek"
  /\ dtor.st = "none" /\ pc = "done"
  /\ log = <<"av_malloc", "Box::new", "avio_alloc_context",
             "av_freep(buffer)", "avio_context_free", "drop_opaque">>

(* C2: whenever a constructor returns an error, the error is ENOMEM and    *)
(* nothing stays allocated: the stream was released exactly once, and      *)
(* neither the native buffer nor an I/O context struct is left allocated.  *)
C2_ErrorLeavesNothingAllocated ==
  (result.fn \in Ctors /\ ~result.ok) =>
    /\ result.err = AVERROR(ENOMEM)
    /\ stream.st = "dropped" /\ stream.drops = 1
    /\ avio.st # "alloc"
    /\ buffer.st # "alloc"

(* C3: the teardown of a bridged Destructor (InputCustomIo,                *)
(* OutputCustomIo) never calls avio_close; a run in which avio_close was   *)
(* called has torn down a default (Input or Output) Destructor.            *)
C3_BridgedNeverCloses ==
  /\ (dtor.st = "dropped" /\ Bridged(dtor.mode)) =>
       /\ Frees("avio_close") = 0
       /\ avio.frees = 1 /\ buffer.frees = 1
  /\ Frees("avio_close") > 0 =>
       (dtor.st = "dropped" /\ dtor.mode \in {"Input", "Output"})

\* A bridged input context has been dropped.
C3_Witness ==
  /\ dtor.st = "dropped" /\ dtor.mode = "InputCustomIo"
  /\ fmt.pb = "bridge" /\ sio.st = "dropped"

(* C4 as claimed: the teardown of either bridged variant calls exactly one *)
(* native context primitive, avformat_free_context ("free the context      *)
(* struct"); the bridged input variant does not use avformat_close_input.  *)
C4_BridgedOnlyFreeContext ==
  (dtor.st = "dropped" /\ Bridged(dtor.mode)) =>
    TeardownFmtCalls = <<"avformat_free_context">>

(* C4 amended: the teardown of a bridged variant calls exactly one native  *)
(* context primitive and never avio_close: OutputCustomIo calls            *)
(* avformat_free_context, InputCustomIo calls avformat_close_input, the    *)
(* combined primitive the default Input variant uses; the context is       *)
(* freed exactly once.                                                     *)
C4_BridgedOnePrimitivePerDirection ==
  (dtor.st = "dropped" /\ Bridged(dtor.mode)) =>
    /\ dtor.mode = "OutputCustomIo" =>
         TeardownFmtCalls = <<"avformat_free_context">>
    /\ dtor.mode = "InputCustomIo" =>
         TeardownFmtCalls = <<"avformat_close_input">>
    /\ fmt.st = "freed" /\ fmt.frees = 1

\* A bridged input context has been dropped through avformat_close_input.
C4_Witness ==
  /\ dtor.st = "dropped" /\ dtor.mode = "InputCustomIo"
  /\ TeardownCalls = <<"avformat_close_input", "av_freep(buffer)",
                       "avio_context_free", "drop_opaque">>

(* C5: the bridge's AVIOContext pointer is never reachable after the       *)
(* bridge is torn down: a live format context whose I/O slot holds the     *)
(* bridge's pointer implies a live bridge, and once the bridge is torn     *)
(* down that context is freed and every native call on it came before the  *)
(* bridge freed its buffer.                                                *)
C5_PointerNeverOutlivesBridge ==
  /\ (fmt.pb = "bridge" /\ fmt.st \in {"alloc", "open"}) =>
       /\ sio.st = "live"
       /\ avio.st = "alloc" /\ buffer.st = "alloc" /\ stream.st = "boxed"
  /\ (fmt.pb = "bridge" /\ sio.st = "dropped") =>
       /\ fmt.st = "freed"
       /\ \A i \in 1..Len(log) :
            log[i] \in FmtCalls => i < At("av_freep(buffer)")

\* A bridged context was opened by input_from_stream and later dropped.
C5_Witness ==
  /\ result.fn = "input_from_stream" /\ result.ok
  /\ dtor.st = "dropped" /\ fmt.pb = "bridge" /\ sio.st = "dropped"
  /\ At("avformat_close_input") + 1 = At("av_freep(buffer)")

GlueFns == {"input_from_stream", "output_to_stream"}
\* The glue died on the fault of its null write and never returned: the
\* bridge it was given is still live.
GlueCrashed ==
  /\ pc = "crashed" /\ log[Len(log)] = "SIGSEGV"
  /\ sio.st = "live"

(* C6: on every path through input_from_stream and output_to_stream the    *)
(* supplied bridge is torn down exactly once: the glue always returns; on  *)
(* an error return the bridge is already dropped, on success it lives in   *)
(* the returned context under the matching bridged mode and is dropped     *)
(* with that context; it is never dropped twice.                           *)
C6_BridgeTornDownOnceOnEveryPath ==
  /\ ~GlueCrashed
  /\ stream.drops <= 1 /\ buffer.frees <= 1 /\ avio.frees <= 1
  /\ (result.fn \in GlueFns /\ ~result.ok) =>
       (sio.st = "dropped" /\ Frees("drop_opaque") = 1)
  /\ (result.fn \in GlueFns /\ result.ok) =>
       /\ dtor.mode = (IF result.fn = "input_from_stream"
                       THEN "InputCustomIo" ELSE "OutputCustomIo")
       /\ dtor.st = "live" => sio.st = "live"
       /\ dtor.st = "dropped" =>
            (sio.st = "dropped" /\ Frees("drop_opaque") = 1)

(* C7: the teardown of a default Input issues exactly avformat_close_input *)
(* once; the teardown of a default Output issues avio_close and then       *)
(* avformat_free_context, each once, the handle being read from the        *)
(* context while it is still allocated; handle and context end released    *)
(* exactly once.                                                           *)
C7_DefaultTeardownCalls ==
  (dtor.st = "dropped" /\ ~Bridged(dtor.mode)) =>
    /\ dtor.mode = "Input" => TeardownCalls = <<"avformat_close_input">>
    /\ dtor.mode = "Output" =>
         TeardownCalls = <<"avio_close", "avformat_free_context">>
    /\ fmt.st = "freed" /\ fmt.frees = 1
    /\ pb.st = "closed" /\ pb.closes = 1

\* A default output context has been dropped.
C7_Witness ==
  /\ dtor.st = "dropped" /\ dtor.mode = "Output"
  /\ result.fn = "output" /\ pb.st = "closed"

\* The last callback was a read the stream answered without an error.
ReadOk == last.op = "read" /\ last.res = "Ok"

(* C8 as claimed, read for requests of at least one byte: a read of M     *)
(* bytes with N bytes remaining returns M and advances the stream by M     *)
(* when M <= N, returns N when M > N > 0, and returns the EOF sentinel     *)
(* when N = 0; it never returns 0.                                         *)
C8_ReadReturnsMinOrEof ==
  (ReadOk /\ last.req >= 1) =>
    /\ last.ret # 0
    /\ last.avail = 0 => last.ret = AVERROR_EOF
    /\ (last.avail > 0 /\ last.req <= last.avail) =>
         (last.ret = last.req /\ stream.pos = last.pos0 + last.req)
    /\ (last.req > last.avail /\ last.avail > 0) => last.ret = last.avail

(* C8 amended: the read callback returns the count k the stream's read     *)
(* handed over, 1 <= k <= min(M, N), and the stream has advanced by k; it  *)
(* returns the EOF sentinel when the stream handed over no byte (N = 0 or  *)
(* M = 0) and never 0.  On a stream whose read fills a request as far as   *)
(* bytes remain (an in-memory slice or cursor) and for M >= 1 this is M    *)
(* when M <= N, N when M > N > 0, and EOF when N = 0.                      *)
C8_ReadReturnsStreamCountOrEof ==
  ReadOk =>
    /\ last.ret # 0
    /\ (last.req = 0 \/ last.avail = 0) => last.ret = AVERROR_EOF
    /\ (last.req > 0 /\ last.avail > 0) =>
         /\ last.ret = last.n
         /\ 1 <= last.ret /\ last.ret <= Min(last.req, last.avail)
         /\ stream.pos = last.pos0 + last.ret
    /\ (stream.kind \in {"vec", "slice"} /\ last.req >= 1) =>
         /\ (last.avail > 0 /\ last.req <= last.avail) =>
              (last.ret = last.req /\ stream.pos = last.pos0 + last.req)
         /\ (last.req > last.avail /\ last.avail > 0) =>
              (last.ret = last.avail /\ stream.pos = last.pos0 + last.avail)

\* On a 2-byte in-memory stream behind a from_read bridge a first read took
\* 1 byte, and a second read of 2 came back short with the 1 byte left.
C8_Witness ==
  /\ ReadOk /\ calls = 2 /\ sio.ctor = "from_read"
  /\ stream.kind = "slice" /\ Len(stream.data) = 2
  /\ last.req = 2 /\ last.avail = 1 /\ last.pos0 = 1
  /\ last.ret = 1 /\ stream.pos = 2

(* C9: the write callback called with K bytes returns K when the stream's  *)
(* write does not fail, and the translated error code when it fails.       *)
C9_WriteReturnsK ==
  last.op = "write" =>
    /\ last.res = "Ok" => last.ret = last.req
    /\ last.res = "Err" => last.ret = map_io_error(last.kind)

(* C10: a bridge over an empty growable in-memory buffer is opened as a    *)
(* custom-I/O output context, only write callbacks run, and the context    *)
(* is dropped: the buffer then holds exactly the chunks written, joined    *)
(* in the order written, every callback returned its chunk's size, and     *)
(* the stream was released exactly once.                                   *)
C10_BufferHoldsChunksInOrder ==
  (/\ dtor.mode = "OutputCustomIo" /\ stream.kind = "vec"
   /\ stream.init = <<>> /\ hist.onlyWrites) =>
    /\ stream.data = hist.written
    /\ Len(stream.data) = stream.pos
    /\ last.op = "write" => last.ret = last.req
    /\ dtor.st = "dropped" =>
         (stream.st = "dropped" /\ stream.drops = 1
          /\ Frees("drop_opaque") = 1)

\* Chunks of 2 bytes and of 1 byte were written through a from_write_seek
\* bridge and the context was dropped: the buffer holds the 3 bytes in the
\* order written.
C10_Witness ==
  /\ dtor.st = "dropped" /\ dtor.mode = "OutputCustomIo"
  /\ sio.ctor = "from_write_seek" /\ stream.kind = "vec"
  /\ stream.init = <<>> /\ hist.onlyWrites /\ calls = 2
  /\ stream.data = <<1, 1, 2>> /\ stream.drops = 1

\* The last callback was a seek with the given whence.
SeekWith(whences) == last.op = "seek" /\ last.whence \in whences
Positional == {0, 1, 2}

(* C11: a size query (seek with the size sentinel) on a stream at any      *)
(* position p, whose stream operations all succeed, returns the stream's   *)
(* total size and leaves the stream at p.                                  *)
C11_SizeQueryReturnsSizeKeepsPosition ==
  (SeekWith({AVSEEK_SIZE}) /\ last.res = "Ok") =>
    /\ last.ret = Len(stream.data)
    /\ stream.pos = last.pos0

\* A seek moved a 2-byte stream to position 1; the size query that followed
\* returned 2 and the stream is at 1.
C11_Witness ==
  /\ SeekWith({AVSEEK_SIZE}) /\ last.res = "Ok" /\ calls = 2
  /\ Len(stream.data) = 2 /\ last.pos0 = 1
  /\ last.ret = 2 /\ stream.pos = 1

(* C12: the seek callback called with a whence that is none of 0, 1, 2 or  *)
(* the size sentinel returns the invalid-argument code and performs no     *)
(* operation on the stream: its position is unchanged.                     *)
C12_InvalidWhenceIsEinval ==
  (last.op = "seek" /\ last.whence \notin Positional \cup {AVSEEK_SIZE}) =>
    /\ last.ret = -22
    /\ last.res = "None"
    /\ stream.pos = last.pos0

\* After a first callback left the stream at 1, a seek with whence 3 and
\* offset 1 was refused.
C12_Witness ==
  /\ last.op = "seek" /\ last.whence = 3 /\ last.req = 1
  /\ last.pos0 = 1 /\ stream.pos = 1 /\ last.ret = -22

(* C13: every failure the stream returns in the read or the write callback *)
(* comes back as a native status code and the program runs on:             *)
(* UnexpectedEof as the EOF sentinel, Interrupted as -EINTR, WouldBlock    *)
(* and TimedOut as -EAGAIN, every other kind as -EIO.                      *)
C13_FailuresAreTranslated ==
  (last.op \in {"read", "write"} /\ last.res = "Err") =>
    /\ pc # "crashed"
    /\ last.kind = "UnexpectedEof" => last.ret = -541478725
    /\ last.kind = "Interrupted" => last.ret = -4
    /\ last.kind \in {"WouldBlock", "TimedOut"} => last.ret = -11
    /\ last.kind \notin {"UnexpectedEof", "Interrupted", "WouldBlock",
                         "TimedOut"} => last.ret = -5

\* A write on which the stream timed out came back as -EAGAIN.
C13_Witness ==
  /\ last.op = "write" /\ last.res = "Err" /\ last.kind = "TimedOut"
  /\ last.req = 2 /\ last.ret = -11 /\ pc = "ctx"

(* C14: in the seek callback a failure of any step of a size query (the    *)
(* position read, the seek to the end, the seek back) is returned as       *)
(* -ENOSYS, and a failure of a positional seek (whence 0, 1, 2) as -EIO.   *)
C14_SeekFailureCodes ==
  (last.op = "seek" /\ last.res = "Err") =>
    /\ last.whence = AVSEEK_SIZE => last.ret = -38
    /\ last.whence \in Positional => last.ret = -5

\* A size query from position 0 of a 2-byte stream failed in the seek back:
\* the stream was left at its end and the callback returned -ENOSYS.
C14_Witness ==
  /\ SeekWith({AVSEEK_SIZE}) /\ last.res = "Err"
  /\ last.pos0 = 0 /\ Len(stream.data) = 2 /\ stream.pos = 2
  /\ last.ret = -38

(* C15: a size query never moves the stream, whatever its stream           *)
(* operations answer: also when a step fails and the callback returns an   *)
(* error code, the position after the call is the position before it.      *)
C15_SizeQueryNeverMoves ==
  SeekWith({AVSEEK_SIZE}) => stream.pos = last.pos0

(* C16: each constructor hands the native allocation exactly the callbacks *)
(* of the capabilities in its name (read iff from_read*, write iff         *)
(* *write*, seek iff *seek) and null for the others, and the write flag    *)
(* it passes is 1 if and only if it passes a write callback.               *)
C16_CallbacksAndFlagFollowName ==
  sio.ctor # "none" =>
    /\ avio.read <=> sio.ctor \in {"from_read", "from_read_seek",
                                   "from_read_write", "from_read_write_seek"}
    /\ avio.write <=> sio.ctor \in {"from_write", "from_write_seek",
                                    "from_read_write", "from_read_write_seek"}
    /\ avio.seek <=> sio.ctor \in {"from_read_seek", "from_write_seek",
                                   "from_read_write_seek"}
    /\ avio.write_flag \in {0, 1}
    /\ avio.write_flag = 1 <=> avio.write
    /\ avio.opaque /\ avio.buffer_size = 16384

\* from_read_write built a live bridge: read and write callbacks, no seek
\* callback, write flag set.
C16_Witness ==
  /\ sio.st = "live" /\ sio.ctor = "from_read_write"
  /\ avio.read /\ avio.write /\ ~avio.seek /\ avio.write_flag = 1

(* C17: once the bridge has freed its native context its stored pointer is *)
(* null, and a teardown that finds the pointer null does nothing: no       *)
(* buffer is freed, no context is freed, the release function is not       *)
(* called, no native call is issued.                                       *)
C17_TeardownIdempotent ==
  /\ [](avio.st = "freed" => ~sio.ptr)
  /\ [][sio.st = "dropped" =>
          (log' = log /\ buffer' = buffer /\ avio' = avio /\ stream' = stream
           /\ sio' = sio)]_vars

\* A bridge that released buffer, context and stream was torn down again.
C17_Witness ==
  /\ pc = "again" /\ sio.st = "dropped" /\ ~sio.ptr
  /\ buffer.frees = 1 /\ avio.frees = 1 /\ stream.drops = 1
  /\ Frees("drop_opaque") = 1

(* C18: for whence 0, 1, 2 and every offset the seek callback returns a    *)
(* non-negative value exactly when the stream's seek succeeded, and then   *)
(* the stream's absolute position after the call; an absolute seek with a  *)
(* negative offset never reaches the stream as a successful seek to the    *)
(* offset taken modulo 2^64.                                               *)
C18_SeekReturnIsPositionOrError ==
  SeekWith(Positional) =>
    /\ last.ret >= 0 <=> last.res = "Ok"
    /\ last.res = "Ok" => last.ret = stream.pos
    /\ (last.whence = 0 /\ last.req < 0) => last.res # "Ok"

\* The entry points of the format module that open a context.
OpenFns == {"open", "open_with", "input", "input_with_dictionary",
            "input_with_interrupt", "input_from_stream", "output",
            "output_with", "output_as", "output_as_with", "output_to_stream"}

(* C19: no open entry point of the format module returns an error while a  *)
(* native format context it allocated or opened is still allocated or its  *)
(* I/O handle still open.                                                  *)
C19_ErrorLeavesNoContext ==
  (result.fn \in OpenFns /\ ~result.ok) =>
    /\ fmt.st \notin {"alloc", "open"}
    /\ pb.st # "open"

====
